---------------------------- MODULE Spec2Model ----------------------------
(***************************************************************************)
(* Model of the PsychoHistory tree orchestration core:                     *)
(*   - the streaming endpoint  POST /generate-tree/stream                  *)
(*   - TreeBuilder.buildTree / expandTree (depth-synchronous scheduler)    *)
(*   - processNode (research -> synthesis -> children, with fallback)      *)
(*   - analyzeProbabilities / normalizeProbabilities                       *)
(*                                                                         *)
(* JavaScript runs every handler to completion: the scheduler's code       *)
(* between two awaits is a chain of steps that nothing can interleave.     *)
(* The only suspension point of the scheduler is `await Promise.all(...)`  *)
(* (pc = "await"); pipelines return and the client disconnects only while  *)
(* the scheduler is suspended there or after buildTree has settled.        *)
(*                                                                         *)
(* Node ids are the positions of the nodes in `nodes` (uuidv4 is taken to  *)
(* return a fresh id); parentId 0 stands for null.                         *)
(* Probabilities are fixed-point numbers in units of 1/Scale, rounded to   *)
(* the nearest unit by every division (IEEE doubles round far finer).      *)
(***************************************************************************)
EXTENDS Integers, Sequences, FiniteSets, TLC

(* ------------------------------ bounds --------------------------------- *)
MaxNodes == 6
MaxConc == 2
MaxReqDepth == 2
MaxSources == 6
Scale == 10000
NSearch == 2
WindowMs == 2
MaxTime == 2
MaxItems == 3

MaxGathered == 4

NCallers == 3

MaxAnswerItems == 6

\* the path finder: nodes of a tree, and the unit of its probabilities
\* (a probability p stands for p / PathUnit)
MaxPathNodes == 7
PathUnit == 10

(* --------------------------- program constants ------------------------- *)
DefaultMaxDepth == 3
SourceCap == 5
FallbackSentiment == 0 - 10
Tolerance == Scale \div 1000
NoNode == 0
NoTimer == 0 - 1
\* The clock of the search client counts ticks of half a window. The Exa
\* client is built with RateLimiter(5, 1000) and baseDelay = 1000: its
\* back-off base is as long as its window. The 10 ms buffer of the limiter
\* is rounded up to the resolution of the clock.
MAX_ITERATIONS == 5

MIN_SOURCES == 3

NoHost == 0

MinEventLength == 10

MinJustificationLength == 20

SentimentBound == 100

MaxOutputs == 5

MaxRetries == 5
BaseDelay == WindowMs
Slack == 1

VARIABLES
  request,         \* the POSTed SeedInput: [hasMaxDepth, maxDepth]
  pc,              \* position of the endpoint / buildTree / expandTree
  maxDepth,        \* TreeBuilder.maxDepth
  maxConcurrent,   \* TreeBuilder.maxConcurrent
  nodes,           \* state.nodeMap: id -> EventNode
  processingQueue, \* state.processingQueue
  completedNodes,  \* state.completedNodes
  totalNodes,      \* state.totalNodes
  isGenerating,    \* state.isGenerating
  currentDepth,    \* expandTree: currentDepth
  nodesAtDepth,    \* expandTree: nodesAtDepth
  batchStart,      \* expandTree: i of the batch loop (0-based)
  inflight,        \* nodes whose processNode call has started and not returned
  rejected,        \* the Promise.all of the current batch has a rejected member
  events,          \* every event handed to onEvent by TreeBuilder.emit, in order
  stream,          \* the records enqueued on the response stream, in order
  streamState,     \* "none" | "open" | "closed" | "cancelled"
  pipelineLog,     \* id -> how the node's pipeline ended (history)
  buildResult,     \* "none" | "running" | "returned" | "thrown" (history)
  httpStatus,      \* status of the HTTP response of POST, 0 before it
  synthCalls,      \* id -> completions requested for the node's synthesis (history)
  researchLog,     \* id -> the sources Phase 1 returned for the node (history)
  statusLog,       \* id -> the assignments made to the node's processingStatus
                   \*       after its creation, in order, each with the code
                   \*       that made it (history)
  \* --- the search client (SearchEngine with its RateLimiter) ---
  now,             \* Date.now(), in ticks
  limit,           \* RateLimiter.limit
  timestamps,      \* RateLimiter.timestamps
  pendingQueue,    \* RateLimiter.pendingQueue: the searches awaiting a permit
  processing,      \* RateLimiter.processing
  wakeAt,          \* due time of the setTimeout processQueue sleeps on, or NoTimer
  searches,        \* search -> position and locals of its search()/searchExa() call
  permits,         \* release times of the permits of the last window (history)
  httpLog,         \* the HTTP requests sent in the last window (history)
  \* --- normalizeProbabilities called on its own ---
  normInput,       \* the outputs handed to normalizeProbabilities
  normOutput,      \* what it returned, <<>> before the call
  \* --- one invocation of conductAgenticResearch ---
  searchProvider,  \* "mock" | "live": the provider of defaultSearchEngine
  rpc,             \* "loop" | "tools" | "returned": where the invocation is
  iteration,       \* iteration
  allSources,      \* allSources
  executedQueries, \* executedQueries
  seenDomains,     \* seenDomains
  messages,        \* messages: the conversation sent with every completion
  toolCalls,       \* assistantMessage.tool_calls of the current iteration
  callIdx,         \* the tool calls of the current message already passed
  completions,     \* completeWithTools calls made (history)
  providerLog,     \* the queries handed to defaultSearchEngine.search (history)
  researchResult,  \* the ResearchResult returned, NoResult before
  \* --- the validation of one synthesis answer ---
  synthAnswer,     \* the text the synthesis completion answered with
  synthChildren,   \* the children processNode made of it, <<>> before
  \* --- the path finder called on a finished tree ---
  pathNodes,       \* the tree: id -> [probability, children], the root is 1
  pathResult       \* what findMostProbablePath and findTopNPaths(root, 1)
                   \* returned, NoPaths before the calls

treeVars == <<request, pc, maxDepth, maxConcurrent, nodes, processingQueue,
              completedNodes, totalNodes, isGenerating, currentDepth,
              nodesAtDepth, batchStart, inflight, rejected, events, stream,
              streamState, pipelineLog, buildResult, httpStatus, synthCalls,
              researchLog, statusLog>>

searchVars == <<now, limit, timestamps, pendingQueue, processing, wakeAt,
                searches, permits, httpLog>>

normVars == <<normInput, normOutput>>

researchVars == <<searchProvider, rpc, iteration, allSources, executedQueries,
                  seenDomains, messages, toolCalls, callIdx, completions,
                  providerLog, researchResult>>

synthVars == <<synthAnswer, synthChildren>>

pathVars == <<pathNodes, pathResult>>

\* what the actions of one component leave alone: the other components
exceptTree == <<searchVars, normVars, researchVars, synthVars, pathVars>>

exceptSearch == <<treeVars, normVars, researchVars, synthVars, pathVars>>

exceptNorm == <<treeVars, searchVars, researchVars, synthVars, pathVars>>

exceptResearch == <<treeVars, searchVars, normVars, synthVars, pathVars>>

exceptSynth == <<treeVars, searchVars, normVars, researchVars, pathVars>>

exceptPath == <<treeVars, searchVars, normVars, researchVars, synthVars>>

vars == <<treeVars, searchVars, normVars, researchVars, synthVars, pathVars>>

(* ------------------------------ helpers -------------------------------- *)
Min(a, b) == IF a < b THEN a ELSE b

Range(s) == {s[i] : i \in 1..Len(s)}

RECURSIVE SumSeq(_)
SumSeq(s) == IF s = <<>> THEN 0 ELSE Head(s) + SumSeq(Tail(s))

Abs(x) == IF x < 0 THEN 0 - x ELSE x

\* Array.prototype.slice(from, to) with 0-based, end-exclusive indices
Slice(s, from, to) == SubSeq(s, from + 1, Min(to, Len(s)))

(* --------------------------- the request ------------------------------- *)
\* body:  "malformed" (request.json() throws) or "json"
\* event: what seed.event is: "missing", "empty", "blank" (whitespace only)
\*        or "text"
Requests ==
  {[body |-> "json", event |-> "text", hasMaxDepth |-> FALSE, maxDepth |-> 0]} \cup
  {[body |-> "json", event |-> "text", hasMaxDepth |-> TRUE, maxDepth |-> d] :
      d \in (0 - 1)..MaxReqDepth} \cup
  {[body |-> "malformed", event |-> "missing", hasMaxDepth |-> FALSE, maxDepth |-> 0]} \cup
  {[body |-> "json", event |-> e, hasMaxDepth |-> FALSE, maxDepth |-> 0] :
      e \in {"missing", "empty", "blank"}}

\* !seed.event || seed.event.trim().length === 0
EventIsRequired(req) == req.event \in {"missing", "empty", "blank"}

\* seed.maxDepth || 3 : undefined and 0 are falsy
EffectiveMaxDepth(req) ==
  IF req.hasMaxDepth /\ req.maxDepth # 0 THEN req.maxDepth ELSE DefaultMaxDepth

(* ----------------------------- events ---------------------------------- *)
Ev(type, nodeId, depth, n) ==
  [type |-> type, nodeId |-> nodeId, depth |-> depth, n |-> n, ok |-> TRUE]

\* sendEvent: controller.enqueue throws once the stream is no longer readable
SinkRaises == streamState # "open"

\* TreeBuilder.emit: the event is handed to onEvent; ok records whether the
\* callback returned normally
Emitted(evs) == [i \in 1..Len(evs) |-> [evs[i] EXCEPT !.ok = ~SinkRaises]]

Deliver(strm, evs) == IF SinkRaises THEN strm ELSE strm \o evs

(* ------------------------- probability math ---------------------------- *)
\* a / b rounded to the nearest unit of 1/Scale
DivRound(a, b) == (2 * a * Scale + b) \div (2 * b)

normalizeProbabilitiesNoScale(probs) == probs

normalizeProbabilitiesEqual(probs) ==
  [i \in 1..Len(probs) |-> DivRound(1, Len(probs))]

normalizeProbabilities(probs) ==
  LET sum == SumSeq(probs) IN
  IF sum = 0
    THEN [i \in 1..Len(probs) |-> DivRound(1, Len(probs))]
    ELSE [i \in 1..Len(probs) |-> DivRound(probs[i], sum)]

analyzeProbabilities(probs) ==
  LET outputs == normalizeProbabilities(probs) IN
  IF Abs(SumSeq(outputs) - Scale) > Tolerance
    THEN normalizeProbabilities(outputs)
    ELSE outputs

(* --------------------------- processNode ------------------------------- *)
\* What the collaborators of one pipeline do:
\*   escape   - an exception leaves processNode (thrown outside its try block
\*              or inside its catch block); it is the case the catch block of
\*              the batch callback in expandTree handles
\*   research - "raise", or the number of sources Phase 1 returns
\*   synth    - "raise" (completion, JSON parsing or schema validation
\*              throws), or "ok" with the validated probabilities `probs`
\* SynthResults are the research/synthesis results a pipeline can see: the
\* number of sources found and the validated probabilities (1 to 5 items).
SynthResults ==
  { [nsrc |-> 3, probs |-> <<0>>],
    [nsrc |-> 3, probs |-> <<0, 0>>],
    [nsrc |-> MaxSources, probs |-> <<Scale \div 2>>],
    [nsrc |-> MaxSources,
     probs |-> <<(7 * Scale) \div 10, (5 * Scale) \div 10, (3 * Scale) \div 10>>] }

Outcomes ==
  {[escape |-> TRUE, research |-> "raise", nsrc |-> 0, synth |-> "none", probs |-> <<>>]} \cup
  {[escape |-> FALSE, research |-> "raise", nsrc |-> 0, synth |-> "none", probs |-> <<>>]} \cup
  {[escape |-> FALSE, research |-> "ok", nsrc |-> 0, synth |-> "none", probs |-> <<>>]} \cup
  {[escape |-> FALSE, research |-> "ok", nsrc |-> 3, synth |-> "raise", probs |-> <<>>]} \cup
  {[escape |-> FALSE, research |-> "ok", nsrc |-> r.nsrc, synth |-> "ok", probs |-> r.probs] :
      r \in SynthResults}

NewNode(parentId, depth, probability, sentiment, sources, fallback) ==
  [parentId |-> parentId, depth |-> depth, probability |-> probability,
   sentiment |-> sentiment, sources |-> sources, children |-> <<>>,
   processingStatus |-> "pending", fallback |-> fallback]

generateFallbackChildrenNeutral(node, id) ==
  << NewNode(id, node.depth + 1, Scale \div 2, 0, <<>>, TRUE),
     NewNode(id, node.depth + 1, Scale \div 2, 0, <<>>, TRUE) >>

generateFallbackChildren(node, id) ==
  << NewNode(id, node.depth + 1, Scale \div 2, 0, <<>>, TRUE),
     NewNode(id, node.depth + 1, Scale \div 2, FallbackSentiment, <<>>, TRUE) >>

ChildDepthSame(node) == node.depth

ChildDepth(node) == node.depth + 1

\* researchResult.sources: the sources Phase 1 gathered, in order; a source
\* is named by its position in the result
ResearchSources(out) ==
  IF out.escape \/ out.research = "raise" THEN <<>> ELSE [i \in 1..out.nsrc |-> i]

TopSourcesAll(sources) == sources

\* researchResult.sources.slice(0, 5)
TopSources(sources) == Slice(sources, 0, SourceCap)

synthesizedChildren(node, id, out) ==
  LET probabilities == analyzeProbabilities(out.probs) IN
  [i \in 1..Len(probabilities) |->
     NewNode(id, ChildDepth(node), probabilities[i], 0,
             TopSources(ResearchSources(out)), FALSE)]

\* the children processNode returns when no exception leaves it
processNode(node, id, out) ==
  IF out.research = "raise" THEN generateFallbackChildren(node, id)
  ELSE IF out.nsrc = 0 THEN generateFallbackChildren(node, id)
  ELSE IF out.synth = "raise" THEN generateFallbackChildren(node, id)
  ELSE synthesizedChildren(node, id, out)

\* the completions requested for Phase 2: analyzeProbabilities is reached
\* when Phase 1 returned sources and calls reasoningLLM.completeJSON once
SynthesisCallsEager(out) ==
  IF ~out.escape /\ out.research = "ok" THEN 1 ELSE 0

SynthesisCalls(out) ==
  IF ~out.escape /\ out.research = "ok" /\ out.nsrc > 0 THEN 1 ELSE 0

\* an assignment to node.processingStatus and the code that makes it
Assigned(status, by) == [status |-> status, by |-> by]

\* how the pipeline ended, for the history variable
PipelineKind(out) ==
  IF out.escape THEN "raised"
  ELSE IF out.research = "raise" THEN "research_failed"
  ELSE IF out.nsrc = 0 THEN "no_sources"
  ELSE IF out.synth = "raise" THEN "synthesis_failed"
  ELSE IF SumSeq(out.probs) = 0 THEN "equal_split"
  ELSE "synthesized"

(* ------------------------------- Init ---------------------------------- *)
\* the search client and normalizeProbabilities are exercised by
\* specifications of their own; elsewhere their variables rest at these values
SearchUnused ==
  /\ now = 0
  /\ limit = 1
  /\ timestamps = <<>>
  /\ pendingQueue = <<>>
  /\ processing = FALSE
  /\ wakeAt = NoTimer
  /\ searches = <<>>
  /\ permits = <<>>
  /\ httpLog = <<>>

NormUnused ==
  /\ normInput = <<>>
  /\ normOutput = <<>>

NoResult ==
  [by |-> "none", sources |-> <<>>, summary |-> "", confidence |-> "",
   iterations |-> 0, queries |-> <<>>]

ResearchUnused ==
  /\ searchProvider = "mock"
  /\ rpc = "loop"
  /\ iteration = 0
  /\ allSources = <<>>
  /\ executedQueries = <<>>
  /\ seenDomains = {}
  /\ messages = <<>>
  /\ toolCalls = <<>>
  /\ callIdx = 0
  /\ completions = 0
  /\ providerLog = <<>>
  /\ researchResult = NoResult

SynthUnused ==
  /\ synthAnswer = [syntax |-> "text", items |-> <<>>]
  /\ synthChildren = <<>>

NoPaths == [called |-> FALSE, mostProbable |-> <<>>, top |-> <<>>]

\* an EventNode as the path finder reads it
PathNode(probability, children) ==
  [probability |-> probability, children |-> children]

PathUnused ==
  /\ pathNodes = <<PathNode(PathUnit, <<>>)>>
  /\ pathResult = NoPaths

TreeUnused ==
  /\ request = [body |-> "json", event |-> "text", hasMaxDepth |-> FALSE, maxDepth |-> 0]
  /\ maxConcurrent = 1
  /\ pc = "idle"
  /\ maxDepth = 0
  /\ nodes = <<>>
  /\ processingQueue = <<>>
  /\ completedNodes = {}
  /\ totalNodes = 0
  /\ isGenerating = FALSE
  /\ currentDepth = 0
  /\ nodesAtDepth = <<>>
  /\ batchStart = 0
  /\ inflight = {}
  /\ rejected = FALSE
  /\ events = <<>>
  /\ stream = <<>>
  /\ streamState = "none"
  /\ pipelineLog = <<>>
  /\ buildResult = "none"
  /\ httpStatus = 0
  /\ synthCalls = <<>>
  /\ researchLog = <<>>
  /\ statusLog = <<>>

Init ==
  /\ request \in Requests
  /\ maxConcurrent \in 1..MaxConc
  /\ pc = "idle"
  /\ maxDepth = 0
  /\ nodes = <<>>
  /\ processingQueue = <<>>
  /\ completedNodes = {}
  /\ totalNodes = 0
  /\ isGenerating = FALSE
  /\ currentDepth = 0
  /\ nodesAtDepth = <<>>
  /\ batchStart = 0
  /\ inflight = {}
  /\ rejected = FALSE
  /\ events = <<>>
  /\ stream = <<>>
  /\ streamState = "none"
  /\ pipelineLog = <<>>
  /\ buildResult = "none"
  /\ httpStatus = 0
  /\ synthCalls = <<>>
  /\ researchLog = <<>>
  /\ statusLog = <<>>
  /\ SearchUnused
  /\ NormUnused
  /\ ResearchUnused
  /\ SynthUnused
  /\ PathUnused

(* ----------------------- the streaming endpoint ------------------------ *)
\* POST: request.json() throws -> 500; event required -> 400; otherwise the
\* stream is created, start() constructs the TreeBuilder and the SSE response
\* is returned
Post ==
  /\ pc = "idle"
  /\ IF request.body = "malformed"
       THEN /\ httpStatus' = 500
            /\ pc' = "responded"
            /\ UNCHANGED <<streamState, maxDepth>>
     ELSE IF EventIsRequired(request)
       THEN /\ httpStatus' = 400
            /\ pc' = "responded"
            /\ UNCHANGED <<streamState, maxDepth>>
     ELSE /\ httpStatus' = 200
          /\ streamState' = "open"
          /\ maxDepth' = EffectiveMaxDepth(request)
          /\ pc' = "buildTree"
  /\ UNCHANGED <<synthCalls, researchLog, statusLog, exceptTree>>
  /\ UNCHANGED <<request, maxConcurrent, nodes, processingQueue, completedNodes,
                 totalNodes, isGenerating, currentDepth, nodesAtDepth, batchStart,
                 inflight, rejected, events, stream, pipelineLog, buildResult>>

(* ------------------------ TreeBuilder.buildTree ------------------------ *)
\* root creation and tree_started (emitted outside the try block)
BuildTree ==
  /\ pc = "buildTree"
  /\ nodes' = <<NewNode(NoNode, 0, Scale, 0, <<>>, FALSE)>>
  /\ pipelineLog' = <<"none">>
  /\ synthCalls' = <<0>>
  /\ researchLog' = <<<<>>>>
  /\ statusLog' = <<<<>>>>
  /\ processingQueue' = <<1>>
  /\ totalNodes' = 1
  /\ isGenerating' = TRUE
  /\ currentDepth' = 0
  /\ LET evs == <<Ev("tree_started", 1, 0, 0)>> IN
       /\ events' = events \o Emitted(evs)
       /\ stream' = Deliver(stream, evs)
       /\ pc' = IF SinkRaises THEN "routeCatch" ELSE "loop"
       /\ buildResult' = IF SinkRaises THEN "thrown" ELSE "running"
  /\ UNCHANGED <<httpStatus, exceptTree>>
  /\ UNCHANGED <<request, maxDepth, maxConcurrent, completedNodes, nodesAtDepth,
                 batchStart, inflight, rejected, streamState>>

(* ----------------------- TreeBuilder.expandTree ------------------------ *)
\* processingQueue.filter(id => node && node.depth === currentDepth)
NodesAtDepth(queue, nodeMap, depth) ==
  SelectSeq(queue, LAMBDA id : id \in DOMAIN nodeMap /\ nodeMap[id].depth = depth)

NextDepthSame(depth) == depth

\* if (nodesAtDepth.length === 0) { currentDepth++; continue; }
NextDepth(depth) == depth + 1

\* while (currentDepth < maxDepth && processingQueue.length > 0) { ... }
ExpandLoop ==
  /\ pc = "loop"
  /\ IF currentDepth < maxDepth /\ Len(processingQueue) > 0
       THEN LET nad == NodesAtDepth(processingQueue, nodes, currentDepth) IN
            IF Len(nad) = 0
              THEN /\ currentDepth' = NextDepth(currentDepth)
                   /\ pc' = "loop"
                   /\ UNCHANGED <<nodesAtDepth, batchStart>>
              ELSE /\ nodesAtDepth' = nad
                   /\ batchStart' = 0
                   /\ pc' = "batch"
                   /\ UNCHANGED currentDepth
       ELSE /\ pc' = "emitCompleted"
            /\ UNCHANGED <<currentDepth, nodesAtDepth, batchStart>>
  /\ UNCHANGED <<httpStatus, synthCalls, researchLog, statusLog, exceptTree>>
  /\ UNCHANGED <<request, maxDepth, maxConcurrent, nodes, processingQueue,
                 completedNodes, totalNodes, isGenerating, inflight, rejected,
                 events, stream, streamState, pipelineLog, buildResult>>

BatchOfRest(nad, i, c) == Slice(nad, i, Len(nad))

BatchOfWide(nad, i, c) == Slice(nad, i, i + c + 1)

\* nodesAtDepth.slice(i, i + this.maxConcurrent)
BatchOf(nad, i, c) == Slice(nad, i, i + c)

\* the events of the synchronous part of batch.map(async nodeId => ...):
\* node_processing for every member; when the sink raises the catch block
\* follows with the per-node error
RECURSIVE DispatchEvents(_, _, _)
DispatchEvents(batch, nodeMap, raises) ==
  IF batch = <<>> THEN <<>>
  ELSE LET id == Head(batch) IN
       <<Ev("node_processing", id, nodeMap[id].depth, 0)>>
       \o (IF raises THEN <<Ev("error", id, 0 - 1, 0)>> ELSE <<>>)
       \o DispatchEvents(Tail(batch), nodeMap, raises)

\* for (i = 0; i < nodesAtDepth.length; i += maxConcurrent) { batch...;
\* await Promise.all(batch.map(...)) } up to the await
DispatchBatch ==
  /\ pc = "batch"
  /\ IF batchStart < Len(nodesAtDepth)
       THEN LET batch == BatchOf(nodesAtDepth, batchStart, maxConcurrent)
                evs == DispatchEvents(batch, nodes, SinkRaises) IN
            /\ events' = events \o Emitted(evs)
            /\ stream' = Deliver(stream, evs)
            /\ nodes' = [id \in DOMAIN nodes |->
                 IF id \in Range(batch)
                   THEN [nodes[id] EXCEPT !.processingStatus =
                           IF SinkRaises THEN "failed" ELSE "processing"]
                   ELSE nodes[id]]
            \* emit raising skips the call of processNode, whose first
            \* statement is node.processingStatus = 'processing'
            /\ statusLog' = [id \in DOMAIN statusLog |->
                 IF id \in Range(batch)
                   THEN Append(statusLog[id],
                               IF SinkRaises THEN Assigned("failed", "TreeBuilder")
                               ELSE Assigned("processing", "processNode"))
                   ELSE statusLog[id]]
            /\ inflight' = IF SinkRaises THEN inflight ELSE inflight \cup Range(batch)
            /\ rejected' = SinkRaises
            /\ pc' = IF SinkRaises THEN "catch" ELSE "await"
       ELSE /\ pc' = "depthDone"
            /\ UNCHANGED <<events, stream, nodes, statusLog, inflight, rejected>>
  /\ UNCHANGED <<httpStatus, synthCalls, researchLog, exceptTree>>
  /\ UNCHANGED <<request, maxDepth, maxConcurrent, processingQueue, completedNodes,
                 totalNodes, isGenerating, currentDepth, nodesAtDepth, batchStart,
                 streamState, pipelineLog, buildResult>>

NoCompletionEvents(id, k) == <<>>

CompletionEventsTwice(id, k) ==
  <<Ev("node_completed", id, 0 - 1, k), Ev("node_completed", id, 0 - 1, k)>>

\* this.emit({type: 'node_completed', data: {node, children}})
CompletionEvents(id, k) == <<Ev("node_completed", id, 0 - 1, k)>>

\* child.depth < this.maxDepth : the child is queued for the next wave
QueuedChildren(first, kids) ==
  SelectSeq([i \in 1..Len(kids) |-> first + i], LAMBDA c : kids[c - first].depth < maxDepth)

\* One pipeline settles: `await processNode(...)` returns or throws and the
\* rest of the batch callback runs (lines 122-163).
PipelineReturns(id, out) ==
  /\ pc \in {"await", "done"}
  /\ id \in inflight
  /\ LET node == nodes[id]
         kids == IF out.escape THEN <<>> ELSE processNode(node, id, out)
         first == Len(nodes)
         k == Len(kids)
         \* the try block ran up to the emit of node_completed
         ran == ~out.escape
         \* the catch block is entered
         caught == out.escape \/ SinkRaises
         evs == (IF ran THEN CompletionEvents(id, k) ELSE <<>>)
                \o (IF caught THEN <<Ev("error", id, 0 - 1, 0)>> ELSE <<>>)
         \* the error emit of the catch block raises: the callback rejects
         rejects == caught /\ SinkRaises
     IN
     /\ first + k <= MaxNodes
     /\ nodes' = [i \in 1..(first + k) |->
          IF i = id
            THEN [node EXCEPT
                    !.children = IF ran THEN [j \in 1..k |-> first + j] ELSE @,
                    !.processingStatus = IF caught THEN "failed" ELSE "completed"]
          ELSE IF i <= first THEN nodes[i]
          ELSE kids[i - first]]
     /\ pipelineLog' = [i \in 1..(first + k) |->
          IF i = id THEN PipelineKind(out)
          ELSE IF i <= first THEN pipelineLog[i] ELSE "none"]
     /\ synthCalls' = [i \in 1..(first + k) |->
          IF i = id THEN SynthesisCalls(out)
          ELSE IF i <= first THEN synthCalls[i] ELSE 0]
     /\ researchLog' = [i \in 1..(first + k) |->
          IF i = id THEN ResearchSources(out)
          ELSE IF i <= first THEN researchLog[i] ELSE <<>>]
     \* node.processingStatus = 'completed' precedes the emit of
     \* node_completed; the catch block assigns 'failed'
     /\ statusLog' = [i \in 1..(first + k) |->
          IF i = id
            THEN statusLog[id]
                 \o (IF ran THEN <<Assigned("completed", "TreeBuilder")>> ELSE <<>>)
                 \o (IF caught THEN <<Assigned("failed", "TreeBuilder")>> ELSE <<>>)
          ELSE IF i <= first THEN statusLog[i] ELSE <<>>]
     /\ processingQueue' =
          IF ran
            THEN SelectSeq(processingQueue \o QueuedChildren(first, kids),
                           LAMBDA q : q # id)
            ELSE processingQueue
     /\ totalNodes' = totalNodes + k
     /\ completedNodes' = IF ran THEN completedNodes \cup {id} ELSE completedNodes
     /\ events' = events \o Emitted(evs)
     /\ stream' = Deliver(stream, evs)
     /\ inflight' = inflight \ {id}
     /\ IF pc = "await"
          THEN /\ rejected' = rejects
               /\ IF rejects THEN pc' = "catch" /\ UNCHANGED batchStart
                  ELSE IF inflight' = {}
                    THEN pc' = "batch" /\ batchStart' = batchStart + maxConcurrent
                  ELSE pc' = "await" /\ UNCHANGED batchStart
          ELSE UNCHANGED <<pc, rejected, batchStart>>
  /\ UNCHANGED <<httpStatus, exceptTree>>
  /\ UNCHANGED <<request, maxDepth, maxConcurrent, isGenerating, currentDepth,
                 nodesAtDepth, streamState, buildResult>>

PipelineSettles == \E id \in inflight : \E out \in Outcomes : PipelineReturns(id, out)

DepthCompletedEventNext(depth, n) == Ev("depth_completed", NoNode, depth + 1, n)

\* this.emit({type: 'depth_completed', data: {depth: currentDepth, nodesProcessed}})
DepthCompletedEvent(depth, n) == Ev("depth_completed", NoNode, depth, n)

DepthCompleted ==
  /\ pc = "depthDone"
  /\ LET evs == <<DepthCompletedEvent(currentDepth, Len(nodesAtDepth))>> IN
       /\ events' = events \o Emitted(evs)
       /\ stream' = Deliver(stream, evs)
  /\ IF SinkRaises
       THEN pc' = "catch" /\ UNCHANGED currentDepth
       ELSE pc' = "loop" /\ currentDepth' = currentDepth + 1
  /\ UNCHANGED <<httpStatus, synthCalls, researchLog, statusLog, exceptTree>>
  /\ UNCHANGED <<request, maxDepth, maxConcurrent, nodes, processingQueue,
                 completedNodes, totalNodes, isGenerating, nodesAtDepth, batchStart,
                 inflight, rejected, streamState, pipelineLog, buildResult>>

\* buildTree after expandTree returned: tree_completed, isGenerating = false,
\* return root
TreeCompleted ==
  /\ pc = "emitCompleted"
  /\ LET evs == <<Ev("tree_completed", NoNode, 0 - 1, totalNodes)>> IN
       /\ events' = events \o Emitted(evs)
       /\ stream' = Deliver(stream, evs)
  /\ IF SinkRaises
       THEN pc' = "catch" /\ UNCHANGED <<isGenerating, buildResult>>
       ELSE pc' = "returned" /\ isGenerating' = FALSE /\ buildResult' = "returned"
  /\ UNCHANGED <<httpStatus, synthCalls, researchLog, statusLog, exceptTree>>
  /\ UNCHANGED <<request, maxDepth, maxConcurrent, nodes, processingQueue,
                 completedNodes, totalNodes, currentDepth, nodesAtDepth, batchStart,
                 inflight, rejected, streamState, pipelineLog>>

\* buildTree's catch: the terminal error (no nodeId) is emitted, then rethrown
BuildCatch ==
  /\ pc = "catch"
  /\ LET evs == <<Ev("error", NoNode, 0 - 1, 0)>> IN
       /\ events' = events \o Emitted(evs)
       /\ stream' = Deliver(stream, evs)
  /\ pc' = "routeCatch"
  /\ buildResult' = "thrown"
  /\ UNCHANGED <<httpStatus, synthCalls, researchLog, statusLog, exceptTree>>
  /\ UNCHANGED <<request, maxDepth, maxConcurrent, nodes, processingQueue,
                 completedNodes, totalNodes, isGenerating, currentDepth,
                 nodesAtDepth, batchStart, inflight, rejected, streamState,
                 pipelineLog>>

(* -------------------- the endpoint after buildTree --------------------- *)
CloseStreamNoop(st) == st

\* controller.close()
CloseStream(st) == "closed"

\* buildTree returned: controller.close(); on a stream that is no longer
\* readable close() throws and the catch block runs
RouteClose ==
  /\ pc = "returned"
  /\ IF SinkRaises
       THEN pc' = "routeCatch" /\ UNCHANGED streamState
       ELSE pc' = "done" /\ streamState' = CloseStream(streamState)
  /\ UNCHANGED <<httpStatus, synthCalls, researchLog, statusLog, exceptTree>>
  /\ UNCHANGED <<request, maxDepth, maxConcurrent, nodes, processingQueue,
                 completedNodes, totalNodes, isGenerating, currentDepth,
                 nodesAtDepth, batchStart, inflight, rejected, events, stream,
                 pipelineLog, buildResult>>

\* catch (error) { sendEvent({type: 'error', ...}); controller.close(); }
\* sendEvent throws on a stream that is no longer readable: start() rejects
RouteCatch ==
  /\ pc = "routeCatch"
  /\ stream' = Deliver(stream, <<Ev("error", NoNode, 0 - 1, 0)>>)
  /\ streamState' = IF SinkRaises THEN streamState ELSE CloseStream(streamState)
  /\ pc' = "done"
  /\ UNCHANGED <<httpStatus, synthCalls, researchLog, statusLog, exceptTree>>
  /\ UNCHANGED <<request, maxDepth, maxConcurrent, nodes, processingQueue,
                 completedNodes, totalNodes, isGenerating, currentDepth,
                 nodesAtDepth, batchStart, inflight, rejected, events,
                 pipelineLog, buildResult>>

\* the client goes away while the build is suspended: the stream is cancelled
ClientDisconnect ==
  /\ pc = "await"
  /\ streamState = "open"
  /\ streamState' = "cancelled"
  /\ UNCHANGED <<httpStatus, synthCalls, researchLog, statusLog, exceptTree>>
  /\ UNCHANGED <<request, pc, maxDepth, maxConcurrent, nodes, processingQueue,
                 completedNodes, totalNodes, isGenerating, currentDepth,
                 nodesAtDepth, batchStart, inflight, rejected, events, stream,
                 pipelineLog, buildResult>>

Next ==
  \/ Post
  \/ BuildTree
  \/ ExpandLoop
  \/ DispatchBatch
  \/ PipelineSettles
  \/ DepthCompleted
  \/ TreeCompleted
  \/ BuildCatch
  \/ RouteClose
  \/ RouteCatch
  \/ ClientDisconnect

Spec == Init /\ [][Next]_vars

\* The build in front of a client that stays connected: the sink never
\* raises, so neither catch block is entered. The event loop runs every
\* continuation that is ready, and every pipeline settles.
BuildNext ==
  \/ Post
  \/ BuildTree
  \/ ExpandLoop
  \/ DispatchBatch
  \/ PipelineSettles
  \/ DepthCompleted
  \/ TreeCompleted
  \/ RouteClose

BuildFairSpec == Init /\ [][BuildNext]_vars /\ WF_vars(BuildNext)

TypeOK ==
  /\ pc \in {"idle", "responded", "buildTree", "loop", "batch", "await",
             "depthDone", "emitCompleted", "catch", "returned", "routeCatch",
             "done"}
  /\ httpStatus \in {0, 200, 400, 500}
  /\ streamState \in {"none", "open", "closed", "cancelled"}
  /\ Len(nodes) <= MaxNodes
  /\ inflight \subseteq DOMAIN nodes

(* ===================== the search client (Exa) ========================= *)
RECURSIVE Pow2(_)
Pow2(n) == IF n = 0 THEN 1 ELSE 2 * Pow2(n - 1)

AtCapacityNever(valid) == FALSE

\* this.timestamps.length >= this.limit
AtCapacity(valid) == Len(valid) >= limit

InWindowAll(ts, t) == ts

\* timestamps.filter(timestamp => now - timestamp < windowMs)
InWindow(ts, t) == SelectSeq(ts, LAMBDA x : t - x < WindowMs)

\* One run of the while loop of processQueue up to its await or its end, at
\* time t: waiters are released while there is capacity; at capacity the loop
\* sleeps until the oldest timestamp has left the window.
\*   released - the waiters resolved, in order;  wake - the timer's due time
RECURSIVE processQueue(_, _, _)
processQueue(ts, queue, t) ==
  IF queue = <<>>
    THEN [timestamps |-> ts, queue |-> queue, released |-> <<>>, wake |-> NoTimer]
  ELSE LET valid == InWindow(ts, t) IN
    IF AtCapacity(valid)
      THEN [timestamps |-> valid, queue |-> queue, released |-> <<>>,
            wake |-> t + (WindowMs - (t - valid[1]) + Slack)]
      ELSE LET rest == processQueue(Append(valid, t), Tail(queue), t) IN
           [rest EXCEPT !.released = <<Head(queue)>> \o @]

\* st, retryCount, answer (the answer searchExa is handling, "none" while a
\* request is in flight) and due (with from, the time the timer was set) are
\* the position and locals of the call; the other fields are history:
\* requests sent, the attempt whose payload was returned, the error that left
\* searchExa
NewSearch ==
  [st |-> "idle", retryCount |-> 0, answer |-> "none", due |-> NoTimer,
   from |-> NoTimer, sent |-> 0, result |-> NoTimer, error |-> "none"]

\* what happened longer than a window ago cannot count against any window
\* that is still to come
Recent(log, t) == SelectSeq(log, LAMBDA e : t - e.at < WindowMs)

\* the request searchExa sends with fetch at time t; after is the time since
\* the failure that made it a retry
HttpRequest(s, retryCount, t, after) ==
  [search |-> s, retryCount |-> retryCount, at |-> t, after |-> after]

RECURSIVE Requests0(_, _)
Requests0(released, t) ==
  IF released = <<>> THEN <<>>
  ELSE <<HttpRequest(Head(released), 0, t, 0)>> \o Requests0(Tail(released), t)

\* the effect of one run of processQueue: every released waiter goes on, in
\* the same turn of the event loop, from acquire() into searchExa and sends
\* its first request
\* (woken: the run was resumed by the timer)
LimiterPass(queue, waiting, woken) ==
  LET r == processQueue(timestamps, queue, now) IN
  /\ timestamps' = r.timestamps
  /\ pendingQueue' = r.queue
  /\ processing' = (r.wake # NoTimer)
  /\ wakeAt' = r.wake
  /\ permits' = permits \o [i \in 1..Len(r.released) |-> [at |-> now, woken |-> woken]]
  /\ httpLog' = httpLog \o Requests0(r.released, now)
  /\ searches' = [s \in DOMAIN searches |->
       IF s \in Range(r.released)
         THEN [searches[s] EXCEPT !.st = "fetching", !.sent = 1]
       ELSE IF s \in waiting THEN [searches[s] EXCEPT !.st = "waiting"]
       ELSE searches[s]]

SearchInit ==
  /\ TreeUnused
  /\ NormUnused
  /\ ResearchUnused
  /\ SynthUnused
  /\ PathUnused
  /\ now = 0
  /\ limit \in 1..NSearch
  /\ timestamps = <<>>
  /\ pendingQueue = <<>>
  /\ processing = FALSE
  /\ wakeAt = NoTimer
  /\ searches = [s \in 1..NSearch |-> NewSearch]
  /\ permits = <<>>
  /\ httpLog = <<>>

\* search(query) with provider 'exa': acquire() queues the caller and runs
\* processQueue unless a run is in progress
\* (the callers are alike: they are taken to call in the order of their ids)
SearchCall(s) ==
  /\ searches[s].st = "idle"
  /\ \A x \in 1..(s - 1) : searches[x].st # "idle"
  /\ IF processing
       THEN /\ pendingQueue' = Append(pendingQueue, s)
            /\ searches' = [searches EXCEPT ![s].st = "waiting"]
            /\ UNCHANGED <<timestamps, processing, wakeAt, permits, httpLog>>
       ELSE LimiterPass(Append(pendingQueue, s), {s}, FALSE)
  /\ UNCHANGED <<now, limit, exceptSearch>>

\* the setTimeout of processQueue fires: `continue` re-runs the loop
LimiterWakes ==
  /\ processing
  /\ wakeAt # NoTimer
  /\ now >= wakeAt
  /\ LimiterPass(pendingQueue, {}, TRUE)
  /\ UNCHANGED <<now, limit, exceptSearch>>

BackoffLinear(retryCount) == BaseDelay * (retryCount + 1)

\* baseDelay * Math.pow(2, retryCount)
Backoff(retryCount) == BaseDelay * Pow2(retryCount)

ResponseKinds == {"ok", "429", "network", "status"}

\* The fetch of searchExa settles:
\*   "ok"      - a 2xx answer whose results are returned
\*   "429"     - retried until retryCount reaches maxRetries, then thrown as
\*               'rate limit exceeded'
\*   "network" - fetch rejects: the catch block retries or rethrows
\*   "status"  - another non-2xx answer: the Error thrown at `!response.ok`
\*               is caught by the same catch block
\* An error leaving searchExa is caught by search(), which returns [].
Respond(s, kind) ==
  /\ searches[s].st = "fetching"
  /\ LET q == searches[s] IN
     searches' = [searches EXCEPT ![s] =
       IF kind = "ok"
         THEN [q EXCEPT !.st = "returned", !.answer = kind, !.result = q.retryCount]
       ELSE IF q.retryCount >= MaxRetries
         THEN [q EXCEPT !.st = "failed", !.answer = kind,
                        !.error = IF kind = "429" THEN "rate limit exceeded" ELSE kind]
       ELSE [q EXCEPT !.st = "backoff", !.answer = kind,
                      !.due = now + Backoff(q.retryCount),
                      !.from = now]]
  /\ UNCHANGED <<now, limit, timestamps, pendingQueue, processing, wakeAt,
                 permits, httpLog, exceptSearch>>

\* the back-off timer fires: return this.searchExa(query, maxResults, retryCount + 1)
RetryFires(s) ==
  /\ searches[s].st = "backoff"
  /\ now >= searches[s].due
  /\ searches' = [searches EXCEPT ![s].st = "fetching",
                                  ![s].retryCount = @ + 1,
                                  ![s].answer = "none",
                                  ![s].due = NoTimer,
                                  ![s].from = NoTimer,
                                  ![s].sent = @ + 1]
  /\ httpLog' = Append(httpLog, HttpRequest(s, searches[s].retryCount + 1, now,
                                            now - searches[s].from))
  /\ UNCHANGED <<now, limit, timestamps, pendingQueue, processing, wakeAt,
                 permits, exceptSearch>>

\* the pending timers: the limiter's sleep and the back-off waits
Timers ==
  (IF wakeAt # NoTimer THEN {wakeAt} ELSE {}) \cup
  {searches[s].due : s \in {x \in DOMAIN searches : searches[x].st = "backoff"}}

\* the clock advances tick by tick up to MaxTime ...
Tick ==
  /\ now < MaxTime
  /\ now' = now + 1
  /\ permits' = Recent(permits, now')
  /\ httpLog' = Recent(httpLog, now')
  /\ UNCHANGED <<limit, timestamps, pendingQueue, processing, wakeAt, searches,
                 exceptSearch>>

\* ... and from then on to the next timer that is due; the answers still
\* awaited then arrive before it
TimeLeap ==
  /\ now >= MaxTime
  /\ \A s \in DOMAIN searches : searches[s].st # "fetching"
  /\ \E t \in Timers :
       /\ t > now
       /\ \A u \in Timers : t <= u
       /\ now' = t
  /\ permits' = Recent(permits, now')
  /\ httpLog' = Recent(httpLog, now')
  /\ UNCHANGED <<limit, timestamps, pendingQueue, processing, wakeAt, searches,
                 exceptSearch>>

SearchCalled == \E s \in DOMAIN searches : SearchCall(s)

Responds == \E s \in DOMAIN searches : \E kind \in ResponseKinds : Respond(s, kind)

RetryTimerFires == \E s \in DOMAIN searches : RetryFires(s)

SearchNext ==
  \/ SearchCalled
  \/ LimiterWakes
  \/ Responds
  \/ RetryTimerFires
  \/ Tick
  \/ TimeLeap

SearchSpec == SearchInit /\ [][SearchNext]_vars

\* The limiter followed for its own sake: what searchExa does after the
\* permit (errors, back-off, retries) never touches the limiter, so every
\* request is answered at once with success.
LimiterInit ==
  /\ TreeUnused
  /\ NormUnused
  /\ ResearchUnused
  /\ SynthUnused
  /\ PathUnused
  /\ now = 0
  /\ limit \in 1..NCallers
  /\ timestamps = <<>>
  /\ pendingQueue = <<>>
  /\ processing = FALSE
  /\ wakeAt = NoTimer
  /\ searches = [s \in 1..NCallers |-> NewSearch]
  /\ permits = <<>>
  /\ httpLog = <<>>

AnswersOk == \E s \in DOMAIN searches : Respond(s, "ok")

LimiterNext ==
  \/ SearchCalled
  \/ LimiterWakes
  \/ AnswersOk
  \/ Tick
  \/ TimeLeap

\* Time advances, a timer that is due fires and the event loop runs its
\* callback, and every HTTP request settles; nothing obliges a caller to call.
LimiterFairSpec ==
  /\ LimiterInit
  /\ [][LimiterNext]_vars
  /\ WF_vars(LimiterWakes)
  /\ WF_vars(AnswersOk)
  /\ WF_vars(Tick)
  /\ WF_vars(TimeLeap)

(* ================ normalizeProbabilities on its own ==================== *)
\* outputs.map(o => ({...o, probability: ...})): every other field is copied
normalizeOutputs(outputs) ==
  LET probabilities == normalizeProbabilities([i \in 1..Len(outputs) |-> outputs[i].probability])
  IN [i \in 1..Len(outputs) |-> [outputs[i] EXCEPT !.probability = probabilities[i]]]

\* probabilities as the schema admits them: in [0, 1]
NormProbs ==
  {0, (3 * Scale) \div 10, (5 * Scale) \div 10, (7 * Scale) \div 10, Scale}

\* 1 to MaxItems outputs; the event of an output is told apart by a number
NormInputs ==
  UNION { { [i \in 1..k |-> [event |-> i, probability |-> f[i]]] : f \in [1..k -> NormProbs] } :
          k \in 1..MaxItems }

NormInit ==
  /\ TreeUnused
  /\ SearchUnused
  /\ ResearchUnused
  /\ SynthUnused
  /\ PathUnused
  /\ normInput \in NormInputs
  /\ normOutput = <<>>

NormalizeCall ==
  /\ normOutput = <<>>
  /\ normOutput' = normalizeOutputs(normInput)
  /\ UNCHANGED <<normInput, exceptNorm>>

NormNext == NormalizeCall

NormSpec == NormInit /\ [][NormNext]_vars

(* ===================== the agentic research loop ======================= *)
\* One invocation of conductAgenticResearch. Its state is local to the
\* invocation, so invocations do not interfere and one is followed alone.
\* A query is a number; the model's fresh queries are numbered in the order
\* they are executed. A source is its hostname, a number from 1, or NoHost
\* when new URL(source.url) throws.

\* toolArgs.x || fallback : an absent or empty value is falsy
OrElse(value, fallback) == IF value = "" THEN fallback ELSE value

SearchCallOf(query) ==
  [name |-> "search", args |-> "json", query |-> query,
   summary |-> "", confidence |-> ""]

FinishCallOf(summary, confidence) ==
  [name |-> "finish_research", args |-> "json", query |-> 0,
   summary |-> summary, confidence |-> confidence]

\* a tool call whose name is neither search nor finish_research
OtherCall ==
  [name |-> "other", args |-> "json", query |-> 0, summary |-> "", confidence |-> ""]

\* a tool call whose arguments are not valid JSON
MalformedCall(name) ==
  [name |-> name, args |-> "malformed", query |-> 0, summary |-> "", confidence |-> ""]

\* the tool_calls of an assistant message, when n queries were executed so
\* far: fresh queries, a repeat inside the message, a repeat of the first
\* executed query, finish_research alone, with empty arguments and between
\* two searches, an unknown tool, and arguments that do not parse
ToolCallLists(n) ==
  { <<SearchCallOf(n + 1)>>,
    <<SearchCallOf(n + 1), SearchCallOf(n + 1)>>,
    <<SearchCallOf(1)>>,
    <<FinishCallOf("given", "high")>>,
    <<FinishCallOf("", "")>>,
    <<SearchCallOf(n + 1), FinishCallOf("given", "low"), SearchCallOf(n + 2)>>,
    <<OtherCall>>,
    <<SearchCallOf(n + 1), MalformedCall("finish_research")>> }

\* what agenticLLM.completeWithTools does: it throws, or answers without a
\* message, with a message without tool calls, or with tool calls
Responses(n) ==
  {[kind |-> k, calls |-> <<>>] : k \in {"throws", "empty", "text"}} \cup
  {[kind |-> "calls", calls |-> c] : c \in ToolCallLists(n)}

\* mockSearch: Math.min(maxResults, 3) results, all of host example.com
mockSearchDistinct == <<1, 2, 3>>

mockSearch == <<1, 1, 1>>

\* what defaultSearchEngine.search returns (it never throws): the mock
\* results, or for a live provider nothing, one fresh host, a fresh host twice
\* and a host seen before, two unparseable URLs, or three fresh hosts
SearchResults(provider, seen) ==
  IF provider = "mock" THEN {mockSearch}
  ELSE LET h == Cardinality(seen) + 1 IN
       { <<>>, <<h>>, <<h, h, 1>>, <<NoHost, NoHost>>, <<h, h + 1, h + 2>> }

\* sources.filter(source => { ... seenDomains.has(domain) ... })
RECURSIVE FilterNew(_, _, _)
FilterNew(sources, seen, kept) ==
  IF sources = <<>> THEN [kept |-> kept, seen |-> seen]
  ELSE LET s == Head(sources) IN
       IF s = NoHost THEN FilterNew(Tail(sources), seen, Append(kept, s))
       ELSE IF s \in seen THEN FilterNew(Tail(sources), seen, kept)
       ELSE FilterNew(Tail(sources), seen \cup {s}, Append(kept, s))

\* toolCall.id : the calls of one invocation are told apart by iteration and
\* position
CallId(iter, idx) == 10 * iter + idx

AssistantMessage(iter, calls) ==
  [role |-> "assistant", ids |-> [j \in 1..Len(calls) |-> CallId(iter, j)],
   content |-> "", total |-> 0]

ToolMessage(id, content, total) ==
  [role |-> "tool", ids |-> <<id>>, content |-> content, total |-> total]

\* the three return statements of conductAgenticResearch
FinishResult(call, sources, iter, queries) ==
  [by |-> "finish", sources |-> sources,
   summary |-> OrElse(call.summary, "Research completed"),
   confidence |-> OrElse(call.confidence, "medium"),
   iterations |-> iter, queries |-> queries]

DefaultResult(sources, iter, queries) ==
  [by |-> "default", sources |-> sources,
   summary |-> "Research completed through iterative search",
   confidence |-> IF Len(sources) >= MIN_SOURCES THEN "medium" ELSE "low",
   iterations |-> iter, queries |-> queries]

ErrorResult(sources, iter, queries) ==
  [by |-> "error", sources |-> sources,
   summary |-> "Research interrupted by error", confidence |-> "low",
   iterations |-> iter, queries |-> queries]

LoopContinuesOnceMore(iter) == iter <= MAX_ITERATIONS

\* while (iteration < MAX_ITERATIONS)
LoopContinues(iter) == iter < MAX_ITERATIONS

IsDuplicateNever(query, queries) == FALSE

\* executedQueries.includes(query)
IsDuplicate(query, queries) == query \in Range(queries)

NewSourcesAll(sources, seen) == [kept |-> sources, seen |-> seen]

\* the filter of lines 179-188 applied to the result of one search
NewSources(sources, seen) == FilterNew(sources, seen, <<>>)

ErrorResultEmpty(sources, iter, queries) == ErrorResult(<<>>, iter, queries)

\* the return statement of the catch block
CaughtResult(sources, iter, queries) == ErrorResult(sources, iter, queries)

IsFinishNever(call) == FALSE

\* toolName === 'finish_research'
IsFinish(call) == call.name = "finish_research"

\* allSources.length >= MIN_SOURCES && iteration >= 2 && !lastIterationAdded
NoProgress(sources, iter, calls) ==
  /\ Len(sources) >= MIN_SOURCES
  /\ iter >= 2
  /\ ~\E j \in DOMAIN calls : calls[j].name = "search"

ResearchInit ==
  /\ TreeUnused
  /\ SearchUnused
  /\ NormUnused
  /\ SynthUnused
  /\ PathUnused
  /\ searchProvider \in {"mock", "live"}
  /\ rpc = "loop"
  /\ iteration = 0
  /\ allSources = <<>>
  /\ executedQueries = <<>>
  /\ seenDomains = {}
  /\ messages = <<[role |-> "user", ids |-> <<>>, content |-> "", total |-> 0]>>
  /\ toolCalls = <<>>
  /\ callIdx = 0
  /\ completions = 0
  /\ providerLog = <<>>
  /\ researchResult = NoResult

\* The top of the while loop up to the for loop over the tool calls (lines
\* 102-135): loop condition, timeout check, iteration++, the completion and
\* the checks of its answer.
ResearchIteration(timedOut, resp) ==
  /\ rpc = "loop"
  /\ IF ~LoopContinues(iteration) \/ timedOut
       THEN /\ researchResult' = DefaultResult(allSources, iteration, executedQueries)
            /\ rpc' = "returned"
            /\ UNCHANGED <<iteration, completions, messages, toolCalls, callIdx>>
       ELSE /\ iteration' = iteration + 1
            /\ completions' = completions + 1
            /\ callIdx' = 0
            /\ IF resp.kind = "throws"
                 THEN /\ researchResult' = CaughtResult(allSources, iteration', executedQueries)
                      /\ rpc' = "returned"
                      /\ UNCHANGED <<messages, toolCalls>>
               ELSE IF resp.kind = "empty"
                 THEN /\ researchResult' = DefaultResult(allSources, iteration', executedQueries)
                      /\ rpc' = "returned"
                      /\ UNCHANGED <<messages, toolCalls>>
               ELSE IF resp.kind = "text"
                 THEN /\ messages' = Append(messages, AssistantMessage(iteration', <<>>))
                      /\ researchResult' = DefaultResult(allSources, iteration', executedQueries)
                      /\ rpc' = "returned"
                      /\ toolCalls' = <<>>
               ELSE /\ messages' = Append(messages, AssistantMessage(iteration', resp.calls))
                    /\ toolCalls' = resp.calls
                    /\ rpc' = "tools"
                    /\ UNCHANGED researchResult
  /\ UNCHANGED <<searchProvider, allSources, executedQueries, seenDomains, providerLog>>
  /\ UNCHANGED exceptResearch

\* One pass of `for (const toolCall of assistantMessage.tool_calls)` (lines
\* 138-217) and, after the last tool call, the no-progress check (233-246).
ExecuteToolCall(found) ==
  /\ rpc = "tools"
  /\ LET call == toolCalls[callIdx + 1]
         id == CallId(iteration, callIdx + 1)
         duplicate == IsDuplicate(call.query, executedQueries)
         runs == call.name = "search" /\ ~duplicate
         filtered == IF runs THEN NewSources(found, seenDomains)
                     ELSE [kept |-> <<>>, seen |-> seenDomains]
         sources == allSources \o filtered.kept
         last == callIdx + 1 = Len(toolCalls)
     IN
     IF call.args = "malformed"
       THEN \* JSON.parse throws: the catch block returns
            /\ found = <<>>
            /\ researchResult' = CaughtResult(allSources, iteration, executedQueries)
            /\ rpc' = "returned"
            /\ UNCHANGED <<allSources, executedQueries, seenDomains, messages,
                           callIdx, providerLog>>
     ELSE IF IsFinish(call)
       THEN /\ found = <<>>
            /\ researchResult' = FinishResult(call, allSources, iteration, executedQueries)
            /\ rpc' = "returned"
            /\ UNCHANGED <<allSources, executedQueries, seenDomains, messages,
                           callIdx, providerLog>>
     ELSE /\ IF runs THEN found \in SearchResults(searchProvider, seenDomains)
                     ELSE found = <<>>
          /\ Len(sources) <= MaxGathered
          /\ allSources' = sources
          /\ seenDomains' = filtered.seen
          /\ executedQueries' = IF runs THEN Append(executedQueries, call.query)
                                ELSE executedQueries
          /\ providerLog' = IF runs THEN Append(providerLog, call.query) ELSE providerLog
          /\ messages' =
               IF call.name # "search" THEN messages
               ELSE IF duplicate
                 THEN Append(messages, ToolMessage(id, "Duplicate query", 0))
               ELSE Append(messages, ToolMessage(id, "results", Len(sources)))
          /\ callIdx' = callIdx + 1
          /\ IF last /\ NoProgress(sources, iteration, toolCalls)
               THEN /\ researchResult' = DefaultResult(sources, iteration, executedQueries')
                    /\ rpc' = "returned"
               ELSE /\ rpc' = IF last THEN "loop" ELSE "tools"
                    /\ UNCHANGED researchResult
  /\ UNCHANGED <<searchProvider, iteration, toolCalls, completions>>
  /\ UNCHANGED exceptResearch

Completes ==
  \E timedOut \in BOOLEAN : \E resp \in Responses(Len(executedQueries)) :
    ResearchIteration(timedOut, resp)

ExecutesToolCall ==
  \E found \in SearchResults("mock", {}) \cup SearchResults("live", seenDomains) \cup {<<>>} :
    ExecuteToolCall(found)

ResearchNext ==
  \/ Completes
  \/ ExecutesToolCall

ResearchSpec == ResearchInit /\ [][ResearchNext]_vars

\* The event loop resumes the invocation whenever the promise it awaits has
\* settled; the completion and the search are taken to settle (search retries
\* a bounded number of times and swallows its errors).
ResearchFairSpec == ResearchSpec /\ WF_vars(ResearchNext)

(* ================ the validation of a synthesis answer ================= *)
\* An item of the answer: the length of its event (and a tag telling the
\* events apart), its probability in units of 1/Scale, and its justification
\* (a length) and sentiment when the item has them.
Item(len, tag, p, hasJ, j, hasS, s) ==
  [event |-> [len |-> len, tag |-> tag], probability |-> p,
   hasJustification |-> hasJ, justification |-> j,
   hasSentiment |-> hasS, sentiment |-> s]

\* the item the prompt asks for: [{"event": "...", "probability": 0.3}]
PromptItem(tag) == Item(MinEventLength, tag, Scale \div 2, FALSE, 0, FALSE, 0)

\* an item with every key of ProbabilityOutputSchema
FullItem(tag) ==
  Item(MinEventLength, tag, Scale \div 2, TRUE, MinJustificationLength, TRUE, 0)

ItemKinds(tag) ==
  { Item(len, tag, p, js[1], js[2], ss[1], ss[2]) :
      len \in {MinEventLength - 1, MinEventLength},
      p \in {0 - 1, 0, Scale \div 2, Scale, Scale + 1},
      js \in {<<FALSE, 0>>, <<TRUE, MinJustificationLength - 1>>,
              <<TRUE, MinJustificationLength>>},
      ss \in {<<FALSE, 0>>, <<TRUE, 0>>, <<TRUE, SentimentBound + 1>>} }

\* answers of 0 to MaxAnswerItems items, all as the prompt asks or all with
\* every key, but for one item of any kind; as bare JSON, in a ```json fence,
\* or not JSON at all
SynthAnswers ==
  {[syntax |-> "text", items |-> <<>>]} \cup
  { [syntax |-> syn, items |-> <<>>] : syn \in {"json", "fenced"} } \cup
  UNION { UNION { { [syntax |-> syn,
                     items |-> [j \in 1..n |->
                                  IF j = i THEN odd
                                  ELSE IF full THEN FullItem(j) ELSE PromptItem(j)]] :
                    odd \in ItemKinds(i), syn \in {"json", "fenced"}, full \in BOOLEAN } :
                  i \in 1..n } :
          n \in 1..MaxAnswerItems }

\* ProbabilityOutputSchema: every key is required
ValidOutput(item) ==
  /\ item.event.len >= MinEventLength
  /\ item.probability >= 0 /\ item.probability <= Scale
  /\ item.hasJustification /\ item.justification >= MinJustificationLength
  /\ item.hasSentiment
  /\ item.sentiment >= 0 - SentimentBound /\ item.sentiment <= SentimentBound

\* completeJSON: the fence is stripped, JSON.parse and schema.parse throw or
\* the parsed array is returned
completeJSON(answer) ==
  IF answer.syntax = "text" THEN [ok |-> FALSE, outputs |-> <<>>]
  ELSE IF Len(answer.items) < 1 \/ Len(answer.items) > MaxOutputs
    THEN [ok |-> FALSE, outputs |-> <<>>]
  ELSE IF \E i \in DOMAIN answer.items : ~ValidOutput(answer.items[i])
    THEN [ok |-> FALSE, outputs |-> <<>>]
  ELSE [ok |-> TRUE, outputs |-> answer.items]

ChildOf(event, probability, fallback) ==
  [event |-> event, probability |-> probability, fallback |-> fallback]

\* Phase 2 of processNode and its catch block: the children made from the
\* validated outputs, or the two fallback children
synthesize(answer) ==
  LET parsed == completeJSON(answer) IN
  IF ~parsed.ok
    THEN << ChildOf([len |-> MinEventLength, tag |-> 0 - 1], Scale \div 2, TRUE),
            ChildOf([len |-> MinEventLength, tag |-> 0 - 2], Scale \div 2, TRUE) >>
  ELSE LET probabilities ==
             analyzeProbabilities([i \in 1..Len(parsed.outputs) |->
                                     parsed.outputs[i].probability])
       IN [i \in 1..Len(probabilities) |->
             ChildOf(parsed.outputs[i].event, probabilities[i], FALSE)]

SynthInit ==
  /\ TreeUnused
  /\ SearchUnused
  /\ NormUnused
  /\ ResearchUnused
  /\ PathUnused
  /\ synthAnswer \in SynthAnswers
  /\ synthChildren = <<>>

SynthesisAnswers ==
  /\ synthChildren = <<>>
  /\ synthChildren' = synthesize(synthAnswer)
  /\ UNCHANGED <<synthAnswer, exceptSynth>>

SynthNext == SynthesisAnswers

SynthSpec == SynthInit /\ [][SynthNext]_vars

(* ========================== the path finder ============================ *)
\* the root is the first node of every tree
PathRoot == 1

\* the longest root-to-leaf path of a tree of MaxPathNodes nodes whose inner
\* nodes have two children or more, counted in nodes
MaxPathLength == (MaxPathNodes - 1) \div 2 + 1

RECURSIVE PathPow(_)
PathPow(n) == IF n = 0 THEN 1 ELSE PathUnit * PathPow(n - 1)

\* cumulativeProbability is kept in units of 1 / PathUnit^MaxPathLength, in
\* which every product of up to MaxPathLength probabilities is exact
PathOne == PathPow(MaxPathLength)

\* cumulativeProbability * probability
Times(cumulativeProbability, probability) ==
  (cumulativeProbability * probability) \div PathUnit

ProbablePath(path, cumulativeProbability) ==
  [nodes |-> path, cumulativeProbability |-> cumulativeProbability]

\* children.reduce((max, child) => child.probability > max.probability ? child : max)
RECURSIVE ReduceMax(_, _, _)
ReduceMax(nodeMap, max, rest) ==
  IF rest = <<>> THEN max
  ELSE LET child == Head(rest) IN
       ReduceMax(nodeMap,
                 IF nodeMap[child].probability > nodeMap[max].probability
                   THEN child ELSE max,
                 Tail(rest))

\* the while loop of findMostProbablePath
RECURSIVE FollowMaxChild(_, _, _, _)
FollowMaxChild(nodeMap, current, path, cumulativeProbability) ==
  IF Len(nodeMap[current].children) > 0
    THEN LET maxChild == ReduceMax(nodeMap, Head(nodeMap[current].children),
                                   Tail(nodeMap[current].children)) IN
         FollowMaxChild(nodeMap, maxChild, Append(path, maxChild),
                        Times(cumulativeProbability, nodeMap[maxChild].probability))
    ELSE ProbablePath(path, cumulativeProbability)

findMostProbablePath(nodeMap) ==
  FollowMaxChild(nodeMap, PathRoot, <<PathRoot>>, PathOne)

\* traverse(node, currentPath, cumProb) of findAllPaths, and its forEach over
\* the children; the paths are pushed in depth-first order
RECURSIVE traverse(_, _, _, _)
RECURSIVE traverseEach(_, _, _, _)
traverse(nodeMap, node, currentPath, cumProb) ==
  LET newPath == Append(currentPath, node)
      newProb == Times(cumProb, nodeMap[node].probability) IN
  IF Len(nodeMap[node].children) = 0
    THEN <<ProbablePath(newPath, newProb)>>
    ELSE traverseEach(nodeMap, nodeMap[node].children, newPath, newProb)

traverseEach(nodeMap, children, newPath, newProb) ==
  IF children = <<>> THEN <<>>
  ELSE traverse(nodeMap, Head(children), newPath, newProb)
       \o traverseEach(nodeMap, Tail(children), newPath, newProb)

findAllPaths(nodeMap) == traverse(nodeMap, PathRoot, <<>>, PathOne)

\* Array.prototype.sort((a, b) => b.cumulativeProbability - a.cumulativeProbability):
\* descending and stable
RECURSIVE InsertPath(_, _)
InsertPath(sorted, p) ==
  IF sorted = <<>> THEN <<p>>
  ELSE IF p.cumulativeProbability > Head(sorted).cumulativeProbability
    THEN <<p>> \o sorted
  ELSE <<Head(sorted)>> \o InsertPath(Tail(sorted), p)

RECURSIVE SortPaths(_, _)
SortPaths(paths, sorted) ==
  IF paths = <<>> THEN sorted
  ELSE SortPaths(Tail(paths), InsertPath(sorted, Head(paths)))

findTopNPaths(nodeMap, n) == Slice(SortPaths(findAllPaths(nodeMap), <<>>), 0, n)

\* The trees the path finder is called on are those the TreeBuilder makes: the
\* root has probability 1 and the probabilities of the children of a node
\* are normalized, two children or more to a node.
ChildProbabilities ==
  {<<p, PathUnit - p>> : p \in {3, 5, 6, 8}} \cup {<<5, 3, PathUnit - 8>>}

PathLeaves == {id \in DOMAIN pathNodes : pathNodes[id].children = <<>>}

PathInit ==
  /\ TreeUnused
  /\ SearchUnused
  /\ NormUnused
  /\ ResearchUnused
  /\ SynthUnused
  /\ pathNodes = <<PathNode(PathUnit, <<>>)>>
  /\ pathResult = NoPaths

\* a node of the tree gets its children (node_completed), before the path
\* finder is called
NodeCompletes ==
  /\ ~pathResult.called
  /\ \E id \in PathLeaves : \E probs \in ChildProbabilities :
       LET first == Len(pathNodes)
           k == Len(probs) IN
       /\ first + k <= MaxPathNodes
       /\ pathNodes' = [i \in 1..(first + k) |->
            IF i = id THEN PathNode(pathNodes[id].probability,
                                    [j \in 1..k |-> first + j])
            ELSE IF i <= first THEN pathNodes[i]
            ELSE PathNode(probs[i - first], <<>>)]
  /\ UNCHANGED <<pathResult, exceptPath>>

\* findMostProbablePath(root) and findTopNPaths(root, 1) are called
FindPaths ==
  /\ ~pathResult.called
  /\ pathResult' = [called |-> TRUE,
                    mostProbable |-> <<findMostProbablePath(pathNodes)>>,
                    top |-> findTopNPaths(pathNodes, 1)]
  /\ UNCHANGED <<pathNodes, exceptPath>>

PathNext == NodeCompletes \/ FindPaths

PathSpec == PathInit /\ [][PathNext]_vars

(* ======================= properties of the claims ====================== *)
Last(s) == s[Len(s)]

IsNodeEnd(e) == e.type = "node_completed" \/ (e.type = "error" /\ e.nodeId # NoNode)

IsTerminal(e) == e.type = "tree_completed" \/ (e.type = "error" /\ e.nodeId = NoNode)

Occurs(log, type, id) == \E i \in DOMAIN log : log[i].type = type /\ log[i].nodeId = id

ChildrenSum(id) ==
  SumSeq([j \in 1..Len(nodes[id].children) |-> nodes[nodes[id].children[j]].probability])

(* C1: depth_completed(d) is emitted after every node_completed or per-node
   error of a node at depth d, and every node_processing of a node at depth
   d+1 is preceded by depth_completed(d). *)
C1_DepthBarrier ==
  \A i \in DOMAIN events :
    /\ events[i].type = "depth_completed" =>
         \A j \in DOMAIN events :
           /\ (IsNodeEnd(events[j]) /\ nodes[events[j].nodeId].depth = events[i].depth)
                => j < i
           /\ (events[j].type = "node_processing"
                /\ events[j].depth = events[i].depth + 1) => i < j
    /\ (events[i].type = "node_processing" /\ events[i].depth >= 1) =>
         \E j \in 1..(i - 1) :
           /\ events[j].type = "depth_completed"
           /\ events[j].depth = events[i].depth - 1

C1_Witness ==
  \E i, j, k \in DOMAIN events :
    /\ i < j /\ j < k
    /\ events[i].type = "depth_completed" /\ events[i].depth = 0
    /\ events[j].type = "node_completed" /\ nodes[events[j].nodeId].depth = 1
    /\ events[k].type = "depth_completed" /\ events[k].depth = 1

(* C2: at most maxConcurrent processNode calls are in flight at any moment,
   whatever the size of the frontier. *)
C2_BoundedConcurrency == Cardinality(inflight) <= maxConcurrent

C2_Witness ==
  /\ pc = "await"
  /\ maxConcurrent >= 2
  /\ Len(nodesAtDepth) > maxConcurrent
  /\ Cardinality(inflight) = maxConcurrent

(* C3: tree_started is the first event; once tree_completed or the terminal
   error (no nodeId) has been emitted no further event is emitted, and a
   settled buildTree has emitted one of them last. *)
C3_TerminalEventLast ==
  /\ events # <<>> => events[1].type = "tree_started"
  /\ \A i \in DOMAIN events : IsTerminal(events[i]) => i = Len(events)
  /\ buildResult \in {"returned", "thrown"} => IsTerminal(Last(events))

(* C4: node_completed(n) is always preceded by node_processing(n), never
   followed by it, and node_processing(c) of a child c of n is preceded by
   node_completed(n). *)
C4_NodeEventOrder ==
  \A j \in DOMAIN events :
    /\ events[j].type = "node_completed" =>
         /\ \E i \in 1..(j - 1) :
              events[i].type = "node_processing" /\ events[i].nodeId = events[j].nodeId
         /\ \A i \in (j + 1)..Len(events) :
              ~(events[i].type = "node_processing" /\ events[i].nodeId = events[j].nodeId)
    /\ (events[j].type = "node_processing" /\ nodes[events[j].nodeId].parentId # NoNode) =>
         \E i \in 1..(j - 1) :
           /\ events[i].type = "node_completed"
           /\ events[i].nodeId = nodes[events[j].nodeId].parentId

C4_Witness ==
  \E j \in DOMAIN events :
    /\ events[j].type = "node_completed"
    /\ nodes[events[j].nodeId].parentId # NoNode
    /\ nodes[events[j].nodeId].children # <<>>

(* C5: a stream the endpoint closed ends with tree_completed or with the
   terminal error; tree_completed is written at most once, nothing is written
   after it, and the stream is closed by the next step of the endpoint. *)
C5_StreamEndsWithTreeCompleted ==
  /\ Cardinality({i \in DOMAIN stream : stream[i].type = "tree_completed"}) <= 1
  /\ \A i \in DOMAIN stream : stream[i].type = "tree_completed" => i = Len(stream)
  /\ streamState = "closed" =>
       /\ stream # <<>>
       /\ Last(stream).type # "error" =>
            /\ Last(stream).type = "tree_completed"
            /\ Cardinality({i \in DOMAIN stream : stream[i].type = "tree_completed"}) = 1
  /\ (stream # <<>> /\ Last(stream).type = "tree_completed") =>
       /\ pc \in {"returned", "done"}
       /\ pc = "done" => streamState = "closed"

C5_Witness ==
  /\ streamState = "closed"
  /\ Last(stream).type = "tree_completed"
  /\ Len(nodes) >= 3

(* C6: the node map is a tree: the root is the only node without parent, has
   depth 0 and probability 1; every other node's parent is in the map, lists
   it among its children and is one level above it. *)
C6_TreeShape ==
  nodes # <<>> =>
    /\ {i \in DOMAIN nodes : nodes[i].parentId = NoNode} = {1}
    /\ nodes[1].depth = 0
    /\ nodes[1].probability = Scale
    /\ \A i \in DOMAIN nodes \ {1} :
         /\ nodes[i].parentId \in DOMAIN nodes
         /\ i \in Range(nodes[nodes[i].parentId].children)
         /\ nodes[i].depth = nodes[nodes[i].parentId].depth + 1

C6_Witness ==
  \E i \in DOMAIN nodes : nodes[i].depth = 2 /\ ~nodes[i].fallback

(* C7: no node has depth > maxDepth; a node at depth maxDepth (or deeper) is
   never dispatched and never gets children; when buildTree returns, every
   node at depth maxDepth - 1 has been dispatched. *)
C7_DepthLimit ==
  \A i \in DOMAIN nodes :
    /\ nodes[i].depth <= maxDepth
    /\ nodes[i].depth >= maxDepth =>
         /\ nodes[i].processingStatus = "pending"
         /\ nodes[i].children = <<>>
         /\ ~Occurs(events, "node_processing", i)
    /\ (buildResult = "returned" /\ nodes[i].depth = maxDepth - 1) =>
         /\ Occurs(events, "node_processing", i)
         /\ nodes[i].processingStatus # "pending"

(* C8: the probabilities of the children of every node with children sum to
   1.0 within 0.001. *)
C8_SiblingSum ==
  \A i \in DOMAIN nodes :
    nodes[i].children # <<>> => Abs(ChildrenSum(i) - Scale) <= Tolerance

C8_Witness ==
  /\ \E i \in DOMAIN nodes :
       /\ pipelineLog[i] = "equal_split"
       /\ nodes[i].children # <<>>
  /\ \E i \in DOMAIN nodes :
       /\ pipelineLog[i] = "synthesized"
       /\ nodes[i].children # <<>>
  /\ \E i \in DOMAIN nodes : pipelineLog[i] = "no_sources"

(* C9: a node whose pipeline raised is failed, has no children, got an error
   event with its id and was dispatched once; the build is not aborted: a
   settled buildTree has returned the root after emitting tree_completed. *)
C9_FailureIsolated ==
  \A i \in DOMAIN nodes :
    pipelineLog[i] = "raised" =>
      /\ nodes[i].processingStatus = "failed"
      /\ nodes[i].children = <<>>
      /\ Occurs(events, "error", i)
      /\ Cardinality({j \in DOMAIN events :
            events[j].type = "node_processing" /\ events[j].nodeId = i}) = 1
      /\ buildResult # "thrown"
      /\ buildResult = "returned" => Last(events).type = "tree_completed"

(* C10: a node whose research or synthesis call raised got the two fallback
   children, is completed (not failed) and got node_completed (not error). *)
C10_FallbackCompletes ==
  \A i \in DOMAIN nodes :
    pipelineLog[i] \in {"research_failed", "synthesis_failed"} =>
      /\ Len(nodes[i].children) = 2
      /\ \A j \in 1..2 : nodes[nodes[i].children[j]].fallback
      /\ nodes[i].processingStatus = "completed"
      /\ Occurs(events, "node_completed", i)
      /\ ~Occurs(events, "error", i)

(* C11: a node whose pipeline took the fallback has exactly two children:
   probability 0.5 each, sentiment 0 for the first and -10 for the second, no
   sources, one level below it, with it as parent; a child stays pending until
   it is dispatched, is queued for the next wave when its depth is below
   maxDepth and has been dispatched when buildTree returns. *)
C11_FallbackChildren ==
  \A i \in DOMAIN nodes :
    pipelineLog[i] \in {"research_failed", "no_sources", "synthesis_failed"} =>
      /\ Len(nodes[i].children) = 2
      /\ nodes[nodes[i].children[1]].sentiment = 0
      /\ nodes[nodes[i].children[2]].sentiment = 0 - 10
      /\ \A j \in 1..2 :
           LET c == nodes[i].children[j] IN
           /\ Abs(2 * nodes[c].probability - Scale) <= 1
           /\ Len(nodes[c].sources) = 0
           /\ nodes[c].depth = nodes[i].depth + 1
           /\ nodes[c].parentId = i
           /\ nodes[c].fallback
           /\ nodes[c].processingStatus = "pending" \/ Occurs(events, "node_processing", c)
           /\ nodes[c].depth < maxDepth =>
                /\ c \in Range(processingQueue) \/ Occurs(events, "node_processing", c)
                /\ buildResult = "returned" => Occurs(events, "node_processing", c)
           /\ nodes[c].depth >= maxDepth =>
                /\ nodes[c].processingStatus = "pending"
                /\ ~Occurs(events, "node_processing", c)

C11_Witness ==
  \E i \in DOMAIN nodes :
    /\ pipelineLog[i] \in {"research_failed", "no_sources", "synthesis_failed"}
    /\ Len(nodes[i].children) = 2
    /\ LET c == nodes[i].children[2] IN
         /\ pipelineLog[c] = "no_sources"
         /\ Len(nodes[c].children) = 2
         /\ nodes[nodes[c].children[1]].depth = maxDepth
         /\ nodes[nodes[c].children[1]].processingStatus = "pending"
    /\ buildResult = "returned"

(* C12: a node whose synthesis completion gave unparseable or schema-invalid
   JSON falls back only after the synthesis call was made again 3 times (4
   completions requested). *)
C12_SynthesisRetried ==
  \A i \in DOMAIN nodes :
    pipelineLog[i] = "synthesis_failed" => synthCalls[i] = 1 + 3

(* C17: a POST whose body is malformed JSON or whose event is missing, empty
   or whitespace-only is answered with HTTP 400; no stream is opened, no
   TreeBuilder runs and no event is emitted. *)
C17_InvalidPostIs400 ==
  (pc # "idle" /\ (request.body = "malformed"
                    \/ request.event \in {"missing", "empty", "blank"})) =>
    /\ httpStatus = 400
    /\ streamState = "none"
    /\ buildResult = "none"
    /\ nodes = <<>>
    /\ events = <<>>

(* C18: when buildTree has raised and the endpoint is done, the stream holds
   exactly one error record without nodeId, that record is its last one, and
   the stream is closed. *)
C18_SchedulerErrorClosesStream ==
  (buildResult = "thrown" /\ pc = "done") =>
    /\ streamState = "closed"
    /\ stream # <<>>
    /\ Last(stream).type = "error" /\ Last(stream).nodeId = NoNode
    /\ Cardinality({i \in DOMAIN stream :
          stream[i].type = "error" /\ stream[i].nodeId = NoNode}) = 1

(* C19: whatever maxDepth the request carries, the TreeBuilder's maxDepth is
   in 1..5, it is 3 when the field is absent, and no node is deeper than 5. *)
C19_MaxDepthClamped ==
  httpStatus = 200 =>
    /\ maxDepth \in 1..5
    /\ ~request.hasMaxDepth => maxDepth = 3
    /\ \A i \in DOMAIN nodes : nodes[i].depth <= 5

InLastWindow(log) == {i \in DOMAIN log : now - log[i].at < WindowMs}

(* C13: at every time the number of permits released in the window that ends
   then is at most limit; when a permit is released the timestamps kept are
   all inside the window of the release (the expired ones were discarded
   before capacity was checked), and a caller is kept waiting only while the
   limiter, at capacity, sleeps on its timer. *)
C13_PermitsPerWindow ==
  /\ Cardinality(InLastWindow(permits)) <= limit
  /\ Len(timestamps) <= limit
  /\ \A i \in DOMAIN timestamps : timestamps[Len(timestamps)] - timestamps[i] < WindowMs
  /\ \A s \in DOMAIN searches : searches[s].st = "waiting" <=> s \in Range(pendingQueue)
  /\ pendingQueue # <<>> =>
       /\ processing
       /\ wakeAt # NoTimer
       /\ Len(timestamps) = limit

C13_Witness ==
  /\ \E i \in DOMAIN permits : permits[i].woken /\ permits[i].at = now
  /\ Cardinality(InLastWindow(permits)) = limit
  /\ \A s \in DOMAIN searches : searches[s].sent >= 1

(* C14: the number of HTTP requests sent to the provider in any window,
   retries included, is at most limit. *)
C14_RequestsPerWindow == Cardinality(InLastWindow(httpLog)) <= limit

(* C15: a search sends at most 6 requests; after the failure of request k+1
   (429, network error) it waits 1s * 2^k before the next one; it returns the
   payload of the first successful request, and fails with an error once the
   5th retry has failed. *)
C15_RetryLadder ==
  /\ \A s \in DOMAIN searches :
       LET q == searches[s] IN
       /\ q.sent <= 6
       /\ q.st \in {"fetching", "backoff", "returned", "failed"} => q.sent = q.retryCount + 1
       /\ (q.answer \in {"429", "network"} /\ q.sent < 6) =>
            /\ q.st = "backoff"
            /\ q.from <= now
            /\ q.due - q.from = <<1, 2, 4, 8, 16>>[q.sent] * BaseDelay
       /\ (q.answer \in {"429", "network"} /\ q.sent = 6) =>
            /\ q.st = "failed"
            /\ q.error # "none"
       /\ q.st = "failed" => q.sent = 6
       /\ q.st = "returned" <=> q.answer = "ok"
       /\ q.st = "returned" => q.result = q.sent - 1
  /\ \A i \in DOMAIN httpLog :
       httpLog[i].retryCount >= 1 =>
         httpLog[i].after >= <<1, 2, 4, 8, 16>>[httpLog[i].retryCount] * BaseDelay

C15_Witness ==
  /\ \E s \in DOMAIN searches :
       /\ searches[s].st = "failed"
       /\ searches[s].sent = 6
       /\ searches[s].error = "rate limit exceeded"
  /\ \E s \in DOMAIN searches :
       /\ searches[s].st = "returned"
       /\ searches[s].result = 3

(* C16: a search that got a non-transient error status (not 429) has failed
   at once: no back-off wait is programmed and no further request is sent. *)
C16_NoRetryOnErrorStatus ==
  \A s \in DOMAIN searches :
    searches[s].answer = "status" =>
      /\ searches[s].st = "failed"
      /\ searches[s].due = NoTimer
      /\ searches[s].retryCount = 0 => searches[s].sent = 1

InputSum == SumSeq([i \in 1..Len(normInput) |-> normInput[i].probability])

(* C20: normalizeProbabilities returns as many items as it got, in the same
   order and with their events; the probability of item i is p_i / sum(p)
   (to the nearest unit) when the sum is not zero, and the same 1/k for every
   item when all inputs are zero; 0.7, 0.5, 0.3 become 7/15, 5/15, 3/15. *)
C20_Normalized ==
  normOutput # <<>> =>
    /\ Len(normOutput) = Len(normInput)
    /\ \A i \in DOMAIN normInput :
         /\ normOutput[i].event = normInput[i].event
         /\ IF InputSum = 0
              THEN /\ normOutput[i].probability = normOutput[1].probability
                   /\ 2 * Abs(normOutput[i].probability * Len(normInput) - Scale)
                        <= Len(normInput)
              ELSE 2 * Abs(normOutput[i].probability * InputSum
                           - normInput[i].probability * Scale) <= InputSum
    /\ [i \in DOMAIN normInput |-> normInput[i].probability]
         = <<(7 * Scale) \div 10, (5 * Scale) \div 10, (3 * Scale) \div 10>> =>
           \A i \in 1..3 :
             2 * Abs(normOutput[i].probability * 15 - <<7, 5, 3>>[i] * Scale) <= 15

C20_Witness ==
  /\ normOutput # <<>>
  /\ [i \in DOMAIN normInput |-> normInput[i].probability]
       = <<(7 * Scale) \div 10, (5 * Scale) \div 10, (3 * Scale) \div 10>>
  /\ normOutput[1].probability > normOutput[2].probability
  /\ normOutput[2].probability > normOutput[3].probability

(* ============== sources, statuses and batches of the tree ============== *)
Dispatched(id) == Occurs(events, "node_processing", id)

Returned(id) == pipelineLog[id] # "none"

NodeEnds(id) ==
  Cardinality({i \in DOMAIN events : IsNodeEnd(events[i]) /\ events[i].nodeId = id})

StatusesOf(id) == [k \in DOMAIN statusLog[id] |-> statusLog[id][k].status]

(* C21: every node carries at most 5 sources; a child of a successful
   synthesis carries exactly the first min(5, n) sources, in order, of the n
   sources Phase 1 returned for its parent; the root and the fallback children
   carry none. *)
C21_ChildSources ==
  \A c \in DOMAIN nodes :
    /\ Len(nodes[c].sources) <= SourceCap
    /\ (nodes[c].parentId = NoNode \/ nodes[c].fallback) => nodes[c].sources = <<>>
    /\ (nodes[c].parentId # NoNode /\ ~nodes[c].fallback) =>
         LET found == researchLog[nodes[c].parentId] IN
         nodes[c].sources = SubSeq(found, 1, Min(SourceCap, Len(found)))

C21_Witness ==
  \E c, d \in DOMAIN nodes :
    /\ nodes[c].parentId # NoNode /\ ~nodes[c].fallback
    /\ Len(researchLog[nodes[c].parentId]) > SourceCap
    /\ Len(nodes[c].sources) = SourceCap
    /\ nodes[d].parentId # NoNode /\ ~nodes[d].fallback
    /\ Len(nodes[d].sources) < SourceCap

(* C23: in a build that returned, every node for which node_processing was
   emitted has exactly one node_completed or error carrying its id, and the
   number of those events is the number of nodes with children plus the
   number of failed nodes without children. *)
C23_OneEndPerNode ==
  buildResult = "returned" =>
    /\ \A id \in DOMAIN nodes : Dispatched(id) => NodeEnds(id) = 1
    /\ Cardinality({i \in DOMAIN events : IsNodeEnd(events[i])})
         = Cardinality({id \in DOMAIN nodes : nodes[id].children # <<>>})
           + Cardinality({id \in DOMAIN nodes :
                            /\ nodes[id].children = <<>>
                            /\ nodes[id].processingStatus = "failed"})

C23_Witness ==
  /\ buildResult = "returned"
  /\ \E id, other \in DOMAIN nodes :
       /\ nodes[id].children = <<>> /\ nodes[id].processingStatus = "failed"
       /\ Occurs(events, "error", id)
       /\ nodes[other].depth = nodes[id].depth
       /\ Occurs(events, "node_completed", other)

(* C24: within one depth level no pipeline of a later batch is dispatched
   before every pipeline of each earlier batch of that level has returned. *)
C24_BatchBarrier ==
  \A a, b \in DOMAIN nodesAtDepth :
    ((a - 1) \div maxConcurrent < (b - 1) \div maxConcurrent
       /\ Dispatched(nodesAtDepth[b]))
      => (Returned(nodesAtDepth[a]) /\ nodesAtDepth[a] \notin inflight)

C24_Witness ==
  /\ pc = "await"
  /\ Len(nodesAtDepth) > maxConcurrent
  /\ \E b \in DOMAIN nodesAtDepth :
       /\ b > maxConcurrent
       /\ nodesAtDepth[b] \in inflight
       /\ \A a \in 1..maxConcurrent : Returned(nodesAtDepth[a])

(* C25: the processingStatus of a node only moves pending -> processing ->
   completed or failed: a node is pending until the first assignment, and a
   node once set completed or failed is never assigned another status. *)
C25_StatusMonotone ==
  \A id \in DOMAIN nodes :
    /\ StatusesOf(id) \in {<<>>, <<"processing">>, <<"processing", "completed">>,
                           <<"processing", "failed">>}
    /\ nodes[id].processingStatus =
         IF statusLog[id] = <<>> THEN "pending" ELSE Last(StatusesOf(id))

(* C26: a node is completed exactly when its children were installed from a
   pipeline that returned; a failed node has no children; a pending node has
   no children and, once the build returned, is in the processing queue. *)
C26_StatusMeaning ==
  \A id \in DOMAIN nodes :
    /\ nodes[id].processingStatus = "completed"
         <=> (nodes[id].children # <<>> /\ pipelineLog[id] \notin {"none", "raised"})
    /\ nodes[id].processingStatus = "failed" => nodes[id].children = <<>>
    /\ nodes[id].processingStatus = "pending" =>
         /\ nodes[id].children = <<>>
         /\ buildResult = "returned" => id \in Range(processingQueue)

(* C27: no field of a node is assigned by the node pipeline: every
   assignment to processingStatus is made by TreeBuilder. *)
C27_PipelineLeavesNodeAlone ==
  \A id \in DOMAIN nodes :
    \A k \in DOMAIN statusLog[id] : statusLog[id][k].by = "TreeBuilder"

(* C28: a pipeline whose Phase 1 returned zero sources returns the two
   fallback children and requests no synthesis completion. *)
C28_NoSynthesisWithoutSources ==
  \A id \in DOMAIN nodes :
    (pipelineLog[id] = "no_sources" /\ researchLog[id] = <<>>) =>
      /\ synthCalls[id] = 0
      /\ Len(nodes[id].children) = 2
      /\ \A j \in 1..2 : nodes[nodes[id].children[j]].fallback

C28_Witness ==
  \E id, other \in DOMAIN nodes :
    /\ pipelineLog[id] = "no_sources"
    /\ synthCalls[id] = 0
    /\ Len(nodes[id].children) = 2
    /\ synthCalls[other] = 1

(* ========================= the research loop =========================== *)
RepliesSince(iter) ==
  Cardinality({m \in DOMAIN messages :
                 /\ messages[m].role = "tool"
                 /\ messages[m].ids[1] \div 10 = iter})

(* C22: an invocation of conductAgenticResearch requests at most
   MAX_ITERATIONS = 5 completions, whatever the model answers, and then
   returns a result whose iterations field lies between 0 and 5. *)
C22_BoundedIterations ==
  /\ [](/\ completions <= MAX_ITERATIONS
        /\ completions = iteration
        /\ rpc = "returned" =>
             /\ researchResult.by # "none"
             /\ researchResult.iterations \in 0..MAX_ITERATIONS
             /\ researchResult.iterations = completions)
  /\ <>(rpc = "returned")

C22_Witness ==
  /\ rpc = "returned"
  /\ researchResult.by = "default"
  /\ researchResult.iterations = MAX_ITERATIONS
  /\ completions = MAX_ITERATIONS
  /\ Len(researchResult.queries) >= MAX_ITERATIONS

(* C30: at a finish_research tool call the loop returns with the summary and
   confidence of the call and with the sources and queries gathered up to
   it, searches earlier in the same message included; the tool calls after
   it are not executed, no finish_research call is ever passed over, and no
   further completion is requested. *)
C30_FinishReturns ==
  /\ \A j \in 1..callIdx :
       ~(toolCalls[j].name = "finish_research" /\ toolCalls[j].args = "json")
  /\ researchResult.by = "finish" =>
       LET call == toolCalls[callIdx + 1] IN
       /\ rpc = "returned"
       /\ call.name = "finish_research"
       /\ researchResult.summary =
            (IF call.summary = "" THEN "Research completed" ELSE call.summary)
       /\ researchResult.confidence =
            (IF call.confidence = "" THEN "medium" ELSE call.confidence)
       /\ researchResult.sources = allSources
       /\ researchResult.queries = executedQueries
       /\ providerLog = executedQueries
       /\ researchResult.iterations = iteration
       /\ completions = iteration
       /\ \A j \in 1..callIdx :
            toolCalls[j].name = "search" => toolCalls[j].query \in Range(providerLog)
       /\ \A j \in (callIdx + 2)..Len(toolCalls) :
            toolCalls[j].name = "search" => toolCalls[j].query \notin Range(providerLog)
       /\ RepliesSince(iteration)
            = Cardinality({j \in 1..callIdx : toolCalls[j].name = "search"})

C30_Witness ==
  /\ rpc = "returned"
  /\ researchResult.by = "finish"
  /\ researchResult.summary = "given"
  /\ iteration >= 2
  /\ callIdx >= 1
  /\ callIdx + 1 < Len(toolCalls)
  /\ toolCalls[callIdx].name = "search"
  /\ Last(providerLog) = toolCalls[callIdx].query
  /\ Len(researchResult.sources) >= 2

(* ===================== the synthesis answer ============================ *)
(* C29: an answer that is a JSON array of 1 to 5 items {event, probability}
   and nothing else, each event at least 10 characters long and each
   probability in [0, 1], yields one non-fallback child per item, in order,
   with the item's event; an answer of 0 or more than 5 items, or with a
   shorter event or a probability outside [0, 1], is rejected. *)
C29_PromptShapeAccepted ==
  synthChildren # <<>> =>
    LET items == synthAnswer.items
        n == Len(items)
    IN
    /\ (/\ synthAnswer.syntax # "text"
        /\ n >= 1 /\ n <= MaxOutputs
        /\ \A i \in 1..n :
             /\ items[i].event.len >= MinEventLength
             /\ items[i].probability >= 0 /\ items[i].probability <= Scale
             /\ ~items[i].hasJustification
             /\ ~items[i].hasSentiment)
         => /\ Len(synthChildren) = n
            /\ \A i \in 1..n :
                 /\ ~synthChildren[i].fallback
                 /\ synthChildren[i].event = items[i].event
    /\ (\/ synthAnswer.syntax = "text"
        \/ n = 0 \/ n > MaxOutputs
        \/ \E i \in 1..n :
             \/ items[i].event.len < MinEventLength
             \/ items[i].probability < 0 \/ items[i].probability > Scale)
         => \A c \in DOMAIN synthChildren : synthChildren[c].fallback

(* ================= the research loop: its safety rails ================= *)
NoRepeat(s) == \A i, j \in DOMAIN s : s[i] = s[j] => i = j

ToolReplies(content) ==
  {m \in DOMAIN messages : messages[m].role = "tool" /\ messages[m].content = content}

\* the tool call at hand is a search for a query executed before
AtDuplicate ==
  /\ rpc = "tools"
  /\ toolCalls[callIdx + 1].name = "search"
  /\ toolCalls[callIdx + 1].args = "json"
  /\ toolCalls[callIdx + 1].query \in Range(executedQueries)

\* every tool call of every assistant message has exactly one tool reply
\* carrying its id, placed after that message
AllAnswered ==
  \A m \in DOMAIN messages :
    messages[m].role = "assistant" =>
      \A k \in DOMAIN messages[m].ids :
        /\ Cardinality({t \in DOMAIN messages :
                          /\ messages[t].role = "tool"
                          /\ messages[t].ids[1] = messages[m].ids[k]}) = 1
        /\ \A t \in DOMAIN messages :
             (messages[t].role = "tool" /\ messages[t].ids[1] = messages[m].ids[k])
               => t > m

(* C31: within one invocation no query is handed to the search provider
   twice and the returned queries hold no duplicate; a search call for a
   query executed before is answered with the Duplicate query error, calls no
   provider and leaves the sources, the seen domains and the executed
   queries as they were. *)
C31_NoRepeatedQuery ==
  /\ [](/\ NoRepeat(providerLog)
        /\ providerLog = executedQueries
        /\ NoRepeat(researchResult.queries))
  /\ [][AtDuplicate =>
          /\ UNCHANGED <<providerLog, allSources, seenDomains, executedQueries>>
          /\ messages' = Append(messages,
                                ToolMessage(CallId(iteration, callIdx + 1),
                                            "Duplicate query", 0))]_vars

C31_Witness ==
  /\ Len(providerLog) >= 2
  /\ Cardinality(ToolReplies("Duplicate query")) >= 2
  /\ \E m \in ToolReplies("Duplicate query") : messages[m].ids[1] % 10 = 2
  /\ \E m \in ToolReplies("Duplicate query") : messages[m].ids[1] % 10 = 1

(* C32: no two accumulated sources with a parseable URL share a hostname,
   whether the repeat comes from an earlier search or from the same search
   result, and the total reported to the model with the results of a search
   is the size of the accumulated list. *)
C32_DistinctHosts ==
  /\ \A i, j \in DOMAIN allSources :
       (allSources[i] # NoHost /\ allSources[i] = allSources[j]) => i = j
  /\ \A s \in Range(allSources) : s # NoHost => s \in seenDomains
  /\ ToolReplies("results") # {} =>
       LET latest == CHOOSE m \in ToolReplies("results") :
                       \A o \in ToolReplies("results") : o <= m
       IN messages[latest].total = Len(allSources)

C32_Witness ==
  /\ searchProvider = "mock"
  /\ Cardinality(ToolReplies("results")) >= 2
  /\ Len(providerLog) >= 2
  /\ allSources = <<1>>
  /\ rpc = "tools"

(* C33: when the tool calls of iteration i >= 2 are processed, at least
   MIN_SOURCES sources are accumulated and the iteration ran no search (its
   search calls, if any, were all suppressed as duplicates), the loop ends:
   the invocation is never back at the top of the loop in that case. *)
C33_NoProgressEnds ==
  (rpc = "loop" /\ iteration >= 2 /\ Len(allSources) >= MIN_SOURCES) =>
    \E m \in ToolReplies("results") : messages[m].ids[1] \div 10 = iteration

(* C34: the invocation never raises. When the completion or the decoding of
   a tool call's arguments throws, the result holds the sources and queries
   accumulated so far with confidence low; when the loop ends without
   finish_research and without exception, confidence is medium exactly when
   at least MIN_SOURCES sources are accumulated. *)
C34_ErrorsAreResults ==
  /\ rpc = "returned" <=> researchResult.by # "none"
  /\ researchResult.by \in {"error", "default"} =>
       /\ researchResult.sources = allSources
       /\ researchResult.queries = executedQueries
       /\ researchResult.iterations = iteration
  /\ researchResult.by = "error" => researchResult.confidence = "low"
  /\ researchResult.by = "default" =>
       /\ Len(allSources) >= MIN_SOURCES => researchResult.confidence = "medium"
       /\ Len(allSources) < MIN_SOURCES => researchResult.confidence = "low"

C34_Witness ==
  /\ researchResult.by = "error"
  /\ Len(researchResult.sources) >= MIN_SOURCES
  /\ Len(researchResult.queries) >= 2
  /\ toolCalls # <<>>
  /\ toolCalls[callIdx + 1].args = "malformed"

(* C39: whenever a further completion is requested, every tool call of every
   assistant message in the conversation, whatever its tool name, has exactly
   one tool reply carrying its id after that message. *)
C39_EveryCallAnswered == [][completions' = completions + 1 => AllAnswered]_vars

(* C40: with the mock provider, whose three results per query share one
   hostname, an invocation accumulates at most one source however many
   queries it runs, and the confidence of the default return is low. *)
C40_MockNeverEnough ==
  searchProvider = "mock" =>
    /\ Len(allSources) <= 1
    /\ Len(allSources) < MIN_SOURCES
    /\ researchResult.by = "default" => researchResult.confidence = "low"

C40_Witness ==
  /\ searchProvider = "mock"
  /\ researchResult.by = "default"
  /\ researchResult.iterations = MAX_ITERATIONS
  /\ Len(researchResult.queries) >= MAX_ITERATIONS
  /\ Len(researchResult.sources) = 1
  /\ researchResult.confidence = "low"

(* ====================== the limiter's sequencer ======================== *)
(* C37: with limit >= 1 every acquire() is granted as time advances, also
   when it arrives while the sequencer sleeps at capacity; a caller is queued
   only while a sequencer loop is running, and a running loop has exactly
   one pending timer, so no wake-up is lost and no second loop starts. *)
C37_EveryAcquireGranted ==
  /\ [](pendingQueue # <<>> => processing)
  /\ [](processing <=> wakeAt # NoTimer)
  /\ [](\A s \in DOMAIN searches :
          searches[s].st = "waiting" <=> s \in Range(pendingQueue))
  /\ \A s \in 1..NCallers :
       (searches[s].st = "waiting")
         ~> (searches[s].st # "waiting" /\ searches[s].sent >= 1)

C37_Witness ==
  /\ limit = 1
  /\ processing
  /\ searches[3].st = "waiting"
  /\ searches[2].sent >= 1
  /\ \E i \in DOMAIN permits : permits[i].woken /\ permits[i].at = now


(* C35: once the client has disconnected, an emission changes nothing but the
   event history: every node that is failed is one whose own pipeline raised,
   no emit raised into the code that called it, no batch was rejected and
   buildTree did not throw. *)
C35_ClosedSinkDiscards ==
  streamState = "cancelled" =>
    /\ \A i \in DOMAIN events : events[i].ok
    /\ \A id \in DOMAIN nodes :
         nodes[id].processingStatus = "failed" => pipelineLog[id] = "raised"
    /\ ~rejected
    /\ buildResult # "thrown"


(* C38: in front of a sink that never raises, a started buildTree terminates:
   it has emitted tree_completed as its last event, isGenerating is false and
   the root is returned, whatever maxDepth and maxConcurrent are and also when
   failed nodes stay in the processing queue. *)
C38_BuildTerminates ==
  /\ [](\A i \in DOMAIN events : events[i].ok)
  /\ (pc = "buildTree") ~>
       (/\ buildResult = "returned"
        /\ ~isGenerating
        /\ nodes # <<>>
        /\ Last(events).type = "tree_completed")

C38_Witness ==
  /\ buildResult = "returned"
  /\ ~isGenerating
  /\ Last(events).type = "tree_completed"
  /\ \E id \in Range(processingQueue) : nodes[id].processingStatus = "failed"
  /\ \E id \in DOMAIN nodes : nodes[id].processingStatus = "completed"


(* C36: the path findMostProbablePath returns is a most probable root-to-leaf
   path: its cumulativeProbability is that of findTopNPaths(root, 1)[0], the
   maximum over all root-to-leaf paths. *)
C36_MostProbablePath ==
  pathResult.called =>
    /\ pathResult.mostProbable[1].cumulativeProbability =
         pathResult.top[1].cumulativeProbability
    /\ \A i \in DOMAIN findAllPaths(pathNodes) :
         findAllPaths(pathNodes)[i].cumulativeProbability <=
           pathResult.mostProbable[1].cumulativeProbability

=============================================================================
